---- MODULE Spec2Model ----
(***************************************************************************)
(* A model of the two experiment scripts of the repository:                *)
(*                                                                         *)
(*   experiments/precomp_vsts_emb.py   (SpecPrecomp)                       *)
(*       parse args -> load data -> normalise the modality -> load model   *)
(*       -> one pass over the vSTS instances -> export the arrays          *)
(*   experiments/finetune_snli_ve.py   (SpecFinetune, SpecInference)       *)
(*       main: parse args -> load data, where the read of args.sim_file,   *)
(*       an attribute parse_args never defines, raises AttributeError in   *)
(*       every run, so that no later line of main is ever executed;        *)
(*       inference(data_gen, model, device): the module's other function,  *)
(*       applied to the generators and classifiers it can be called with.  *)
(*                                                                         *)
(* Each script is a single sequential procedure; its position is a program *)
(* counter and every action is one step of main().  A Python exception     *)
(* ends the run: the program counter becomes "error" and the exception's   *)
(* name is kept.                                                           *)
(***************************************************************************)
EXTENDS Integers, Sequences, FiniteSets, TLC

VARIABLES
    \* ---- precomp_vsts_emb.main ----
    p_pc,         \* position in main
    p_error,      \* name of the exception raised, "none" otherwise
    p_args,       \* args.model, args.modality (which the script overwrites)
                  \* and args.output_path
    requested,    \* history: args.modality as parse_args returned it
    data_len,     \* len(all_data), all_data = vsts.VstsCaptions(...)
    fetched,      \* the rows of all_data the generator has fetched, in order
    model_keys,   \* keys of the dict the loaded model returns
    embs1, embs2, sims,   \* the three accumulators
    read_keys,    \* history: keys read from the model's output dicts
    made_dir,     \* whether os.mkdir(args.output_path) was called
    saved         \* files written by np.save: name -> array

p_vars == <<p_pc, p_error, p_args, requested, data_len, fetched, model_keys,
            embs1, embs2, sims, read_keys, made_dir, saved>>

VARIABLES
    \* ---- finetune_snli_ve.main ----
    pc,             \* position in main
    error,          \* name of the exception raised, "none" otherwise
    args,           \* the namespace parse_args returned
    file_label,     \* the file_label of each data set built so far
    model_file,     \* contents written to ft_model_lr*.pth, in order
    plot_file,      \* one entry per write of training_losses_*.png
    losses_file,    \* contents written to losses.pickle, in order
    accuracies      \* the accuracies printed

f_vars == <<pc, error, args, file_label, model_file, plot_file, losses_file,
            accuracies>>

VARIABLES
    \* ---- finetune_snli_ve.inference ----
    i_pc,           \* position in inference
    i_error,        \* name of the exception raised, "none" otherwise
    data_gen,       \* the batches the generator yields, in order
    logits_rank,    \* number of dimensions of the logits model() returns
    consumed,       \* batches taken from the generator so far
    all_logits      \* the list inference builds and returns

i_vars == <<i_pc, i_error, data_gen, logits_rank, consumed, all_logits>>

vars == <<p_vars, f_vars, i_vars>>

----------------------------------------------------------------------------
(* Bounds of the model.                                                    *)

\* largest number of vSTS instances in the data set
MaxInst == 2

\* largest value of --epochs
MaxEpochs == 2

\* largest number of batches a generator yields
MaxBatches == 2

\* largest number of instances in a batch
MaxBatchSize == 2

----------------------------------------------------------------------------
(* precomp_vsts_emb.py : strings                                           *)

\* choices of --model
Models == {"vse++", "univse", "simp_univse"}

\* choices of --modality
Modalities == {"img", "sent", "cap", "comp", "sent+img", "cap+img", "comp+img"}

\* The characters of the string literals the script compares.
Chars ==
    [s \in Modalities |->
        CASE s = "img"      -> <<"i","m","g">>
          [] s = "sent"     -> <<"s","e","n","t">>
          [] s = "cap"      -> <<"c","a","p">>
          [] s = "comp"     -> <<"c","o","m","p">>
          [] s = "sent+img" -> <<"s","e","n","t","+","i","m","g">>
          [] s = "cap+img"  -> <<"c","a","p","+","i","m","g">>
          [] s = "comp+img" -> <<"c","o","m","p","+","i","m","g">>]

\* Python's  sub in s  on strings: sub occurs as a contiguous substring of s.
StrIn(sub, s) ==
    LET a == Chars[sub]
        b == Chars[s]
    IN  \E i \in 0..(Len(b) - Len(a)) : SubSeq(b, i + 1, i + Len(a)) = a

----------------------------------------------------------------------------
(* precomp_vsts_emb.py : data and model                                    *)

Images    == {1, 2}
Sentences == {1, 2}
SimScores == {0, 1}

\* A similarity dataset row: (image, sentence, image, sentence, score).
Rows == [img_1 : Images, sent_1 : Sentences,
         img_2 : Images, sent_2 : Sentences, sim : SimScores]

SeqsUpTo(S, n) == UNION {[1..m -> S] : m \in 0..n}

\* DataLoader(all_data, batch_size=1, shuffle=False) over the rows fetched:
\* one batch per row, in dataset order, every field wrapped in a batch
\* dimension of size 1.
Generator(rows) ==
    [i \in 1..Len(rows) |->
        [img_1 |-> <<rows[i].img_1>>, sent_1 |-> <<rows[i].sent_1>>,
         img_2 |-> <<rows[i].img_2>>, sent_2 |-> <<rows[i].sent_2>>,
         sim   |-> <<rows[i].sim>>]]

\* Values of --output-path: None when the option is not given.
OutputPaths == {"None", "out"}

AllKeys == {"img_emb", "sent_emb", "cap_emb", "comp_emb"}

\* Keys of the embedding dict per model: univse yields all four; the other
\* model, as the script's warnings say, "has only sentence embeddings as
\* output" beside the image embedding.
KeysOf(model) == IF model = "univse" THEN AllKeys ELSE {"img_emb", "sent_emb"}

\* model(img, list(sent)) on a batch: a dict of matrices, one row per batch
\* item.  An embedding is kept symbolic: the row of item b under key k is the
\* one-component vector <<k, input>>, the image for img_emb and the sentence
\* for the three text embeddings.
Forward(keys, img, sent) ==
    [k \in keys |->
        [b \in 1..Len(img) |->
            << <<k, IF k = "img_emb" THEN img[b] ELSE sent[b]>> >>]]

\* torch.cat((a, b), dim=1): row by row, the columns of a then those of b.
TorchCat1(a, b) == [r \in 1..Len(a) |-> a[r] \o b[r]]

\* The keys lines 127-147 read for a modality, in reading order.
KeysRead(modality) ==
    CASE modality = "img"      -> <<"img_emb">>
      [] modality = "cap"      -> <<"cap_emb">>
      [] modality = "sent"     -> <<"sent_emb">>
      [] modality = "comp"     -> <<"comp_emb">>
      [] modality = "cap+img"  -> <<"cap_emb", "img_emb">>
      [] modality = "sent+img" -> <<"sent_emb", "img_emb">>
      [] OTHER                 -> <<"comp_emb", "img_emb">>

\* SelectEmb with the two parts of a combined modality exchanged.
SelectEmbImgFirst(modality, embeddings) ==
    LET ks == KeysRead(modality)
    IN  IF Len(ks) = 1 THEN embeddings[ks[1]]
        ELSE TorchCat1(embeddings[ks[2]], embeddings[ks[1]])

\* Lines 127-147: current_emb for one side.
SelectEmb(modality, embeddings) ==
    LET ks == KeysRead(modality)
    IN  IF Len(ks) = 1 THEN embeddings[ks[1]]
        ELSE TorchCat1(embeddings[ks[1]], embeddings[ks[2]])

\* FixCap without the test for the image part.
FixCapDropsImg(model, modality) ==
    IF StrIn("cap", modality) /\ model # "univse" THEN "sent" ELSE modality

\* Lines 75-81.
FixCap(model, modality) ==
    IF StrIn("cap", modality) /\ model # "univse"
    THEN IF StrIn("img", modality) THEN "sent+img" ELSE "sent"
    ELSE modality

\* Lines 83-89: the inner test repeats the outer one.
FixComp(model, modality) ==
    IF StrIn("comp", modality) /\ model # "univse"
    THEN IF StrIn("comp", modality) THEN "comp+img" ELSE "comp"
    ELSE modality

\* Names of the exported files (lines 166-168).
EmbFileName(model, modality, side) == <<model, modality, side>>
SimFileName == <<"sim">>

\* AppendSim with sims.insert(0, ...) in place of sims.append(...).
AppendSimFront(s, x) == <<x>> \o s

\* sims.append(sim.data.numpy()[0])
AppendSim(s, x) == Append(s, x)

----------------------------------------------------------------------------
(* finetune_snli_ve.py : data                                              *)

\* Values of --emb-file / --label-file: None when the option is not given.
Files == {"None", "labels_a.npy", "labels_b.npy"}

\* Class labels.
Labels == {0, 1}

\* The namespace parse_args returns: one attribute per option it defines
\* and no other.  The float and size hyper-parameters (lr, batch_size,
\* input_size, hidden_size, momentum, weight_decay, dropout) and emb_file,
\* output_path are left out: no step main reaches reads them.
ParseArgs == [plot : BOOLEAN, eval : BOOLEAN, batch_norm : BOOLEAN,
              epochs : 0..MaxEpochs, label_file : Files]

\* Attribute lookup on the namespace: AttributeError when the name is not
\* one of its attributes.
HasAttr(ns, name) == name \in DOMAIN ns

\* The weights of a freshly built classifier (never built: see FLoadData).
InitialWeights == 0

\* A batch as the generator yields it: `fields` tensors, each with one entry
\* per instance of the batch; `argmax` is, per instance, the class of the
\* largest logit the model returns for it.
Batches ==
    [fields : {2, 3},
     argmax : UNION {[1..n -> Labels] : n \in 1..MaxBatchSize}]

----------------------------------------------------------------------------
(* Each specification runs one program and leaves the variables of the     *)
(* others at rest.                                                         *)

PIdle ==
    /\ p_pc = "idle"
    /\ p_error = "none"
    /\ p_args = [model |-> "univse", modality |-> "sent",
                 output_path |-> "None"]
    /\ requested = "sent"
    /\ data_len = 0
    /\ fetched = << >>
    /\ model_keys = {}
    /\ embs1 = << >>
    /\ embs2 = << >>
    /\ sims = << >>
    /\ read_keys = {}
    /\ made_dir = FALSE
    /\ saved = << >>

FIdle ==
    /\ pc = "idle"
    /\ error = "none"
    /\ args = [plot |-> FALSE, eval |-> FALSE, batch_norm |-> FALSE,
               epochs |-> 0, label_file |-> "None"]
    /\ file_label = << >>
    /\ model_file = << >>
    /\ plot_file = << >>
    /\ losses_file = << >>
    /\ accuracies = << >>

IIdle ==
    /\ i_pc = "idle"
    /\ i_error = "none"
    /\ data_gen = << >>
    /\ logits_rank = 2
    /\ consumed = 0
    /\ all_logits = << >>

----------------------------------------------------------------------------
(* precomp_vsts_emb.main                                                   *)

PInit ==
    /\ FIdle
    /\ IIdle
    /\ p_pc = "load_data"
    /\ p_error = "none"
    /\ p_args \in [model : Models, modality : Modalities,
                    output_path : OutputPaths]
    /\ requested = p_args.modality
    /\ data_len = 0
    /\ fetched = << >>
    /\ model_keys = {}
    /\ embs1 = << >>
    /\ embs2 = << >>
    /\ sims = << >>
    /\ read_keys = {}
    /\ made_dir = FALSE
    /\ saved = << >>

\* Lines 70-73: the data set under args.data_path has some number of rows;
\* a row is fetched when the generator asks for it.
PLoadData ==
    /\ UNCHANGED f_vars
    /\ UNCHANGED i_vars
    /\ p_pc = "load_data"
    /\ data_len' \in 0..MaxInst
    /\ p_pc' = "fix_cap"
    /\ UNCHANGED <<p_error, p_args, requested, fetched, model_keys,
                   embs1, embs2, sims, read_keys, made_dir, saved>>

\* Lines 75-81.
PFixCap ==
    /\ UNCHANGED f_vars
    /\ UNCHANGED i_vars
    /\ p_pc = "fix_cap"
    /\ p_args' = [p_args EXCEPT !.modality = FixCap(p_args.model, p_args.modality)]
    /\ p_pc' = "fix_comp"
    /\ UNCHANGED <<p_error, requested, data_len, fetched, model_keys,
                   embs1, embs2, sims, read_keys, made_dir, saved>>

\* Lines 83-89.
PFixComp ==
    /\ UNCHANGED f_vars
    /\ UNCHANGED i_vars
    /\ p_pc = "fix_comp"
    /\ p_args' = [p_args EXCEPT !.modality = FixComp(p_args.model, p_args.modality)]
    /\ p_pc' = "load_model"
    /\ UNCHANGED <<p_error, requested, data_len, fetched, model_keys,
                   embs1, embs2, sims, read_keys, made_dir, saved>>

\* Lines 91-114: vse++ raises NotImplementedError.
PLoadModel ==
    /\ UNCHANGED f_vars
    /\ UNCHANGED i_vars
    /\ p_pc = "load_model"
    /\ IF p_args.model = "vse++"
       THEN /\ p_pc' = "error"
            /\ p_error' = "NotImplementedError"
            /\ UNCHANGED model_keys
       ELSE /\ p_pc' = "loop"
            /\ model_keys' = KeysOf(p_args.model)
            /\ UNCHANGED p_error
    /\ UNCHANGED <<p_args, requested, data_len, fetched,
                   embs1, embs2, sims, read_keys, made_dir, saved>>

\* Lines 120-151: the body of the loop for the next batch of the generator.
\* Both sides' embeddings are selected before anything is appended; the first
\* key the model's dict lacks raises KeyError.
PInstance ==
    /\ UNCHANGED f_vars
    /\ UNCHANGED i_vars
    /\ p_pc = "loop"
    /\ Len(fetched) < data_len
    /\ \E row \in Rows :
       LET rows == Append(fetched, row)
           batch == Generator(rows)[Len(rows)]
           embeddings_1 == Forward(model_keys, batch.img_1, batch.sent_1)
           embeddings_2 == Forward(model_keys, batch.img_2, batch.sent_2)
           ks == KeysRead(p_args.modality)
           missing == {j \in 1..Len(ks) : ks[j] \notin model_keys}
       IN  /\ fetched' = rows
           /\ IF missing # {}
              THEN LET first == CHOOSE j \in missing : \A l \in missing : j <= l
                   IN  /\ read_keys' = read_keys \cup {ks[j] : j \in 1..first}
                       /\ p_pc' = "error"
                       /\ p_error' = "KeyError"
                       /\ UNCHANGED <<embs1, embs2, sims>>
              ELSE /\ read_keys' = read_keys \cup {ks[j] : j \in 1..Len(ks)}
                   /\ embs1' = Append(embs1, SelectEmb(p_args.modality, embeddings_1)[1])
                   /\ embs2' = Append(embs2, SelectEmb(p_args.modality, embeddings_2)[1])
                   /\ sims' = AppendSim(sims, batch.sim[1])
                   /\ UNCHANGED <<p_pc, p_error>>
    /\ UNCHANGED <<p_args, requested, data_len, model_keys, made_dir, saved>>

\* Lines 153-168: the generator is exhausted.  os.path.exists(None) raises
\* TypeError when --output-path was not given; otherwise the directory is
\* made unless it exists, and the three arrays are written.
PSave ==
    /\ UNCHANGED f_vars
    /\ UNCHANGED i_vars
    /\ p_pc = "loop"
    /\ Len(fetched) = data_len
    /\ IF p_args.output_path = "None"
       THEN /\ p_pc' = "error"
            /\ p_error' = "TypeError"
            /\ UNCHANGED <<made_dir, saved>>
       ELSE /\ \E exists \in BOOLEAN : made_dir' = ~exists
            /\ saved' =
                 (EmbFileName(p_args.model, p_args.modality, "emb_1") :> embs1)
                 @@ (EmbFileName(p_args.model, p_args.modality, "emb_2") :> embs2)
                 @@ (SimFileName :> sims)
            /\ p_pc' = "done"
            /\ UNCHANGED p_error
    /\ UNCHANGED <<p_args, requested, data_len, fetched, model_keys,
                   embs1, embs2, sims, read_keys>>

PNext ==
    \/ PLoadData
    \/ PFixCap
    \/ PFixComp
    \/ PLoadModel
    \/ PInstance
    \/ PSave

----------------------------------------------------------------------------
(* finetune_snli_ve.main                                                   *)

\* Line 125: args = parse_args().  Nothing has been written yet.
FInit ==
    /\ PIdle
    /\ IIdle
    /\ pc = "load_data"
    /\ error = "none"
    /\ args \in ParseArgs
    /\ file_label = << >>
    /\ model_file = << >>
    /\ plot_file = << >>
    /\ losses_file = << >>
    /\ accuracies = << >>

\* Lines 127-130: the first data set is built with file_label=args.sim_file.
\* parse_args defines label_file and no sim_file, so the lookup raises
\* AttributeError and main ends there; lines 131-249 (the dev split, the
\* model, the epoch loop, the three writes and the inference) are not
\* reached by any run.
FLoadData ==
    /\ UNCHANGED p_vars
    /\ UNCHANGED i_vars
    /\ pc = "load_data"
    /\ IF HasAttr(args, "sim_file")
       THEN /\ file_label' = Append(file_label, args.sim_file)
            /\ pc' = "load_dev"
            /\ UNCHANGED error
       ELSE /\ pc' = "error"
            /\ error' = "AttributeError"
            /\ UNCHANGED file_label
    /\ UNCHANGED <<args, model_file, plot_file, losses_file, accuracies>>

FNext ==
    \/ FLoadData

----------------------------------------------------------------------------
(* finetune_snli_ve.inference                                              *)

\* inference(data_gen, model, device) is called with a generator and a
\* classifier; all_logits = [] (line 111).
IInit ==
    /\ PIdle
    /\ FIdle
    /\ i_pc = "loop"
    /\ i_error = "none"
    /\ data_gen \in SeqsUpTo(Batches, MaxBatches)
    /\ logits_rank \in {2, 3}
    /\ consumed = 0
    /\ all_logits = << >>

\* Line 115: emb_1, emb_2, _ = batch
UnpacksAsThree(batch) == batch.fields = 3

\* Lines 117-118: torch.max(logits, 1) drops dimension 1 of the logits;
\* pred_labels.squeeze(1) needs a dimension 1 in what is left, which logits
\* of shape (batch, classes) do not give and logits of shape
\* (batch, classes, 1) do.
SqueezeOk(rank) == rank - 1 >= 2

\* Lines 113-118: one pass of the loop body.
IBatch ==
    /\ UNCHANGED p_vars
    /\ UNCHANGED f_vars
    /\ i_pc = "loop"
    /\ consumed < Len(data_gen)
    /\ LET batch == data_gen[consumed + 1]
       IN  IF ~UnpacksAsThree(batch)
           THEN /\ i_pc' = "error"
                /\ i_error' = "ValueError"
                /\ UNCHANGED all_logits
           ELSE IF ~SqueezeOk(logits_rank)
           THEN /\ i_pc' = "error"
                /\ i_error' = "IndexError"
                /\ UNCHANGED all_logits
           ELSE /\ all_logits' = all_logits \o batch.argmax
                /\ UNCHANGED <<i_pc, i_error>>
    /\ consumed' = consumed + 1
    /\ UNCHANGED <<data_gen, logits_rank>>

\* Line 120: return all_logits
IReturn ==
    /\ UNCHANGED p_vars
    /\ UNCHANGED f_vars
    /\ i_pc = "loop"
    /\ consumed = Len(data_gen)
    /\ i_pc' = "returned"
    /\ UNCHANGED <<i_error, data_gen, logits_rank, consumed, all_logits>>

INext ==
    \/ IBatch
    \/ IReturn

----------------------------------------------------------------------------

SpecPrecomp == PInit /\ [][PNext]_vars

SpecFinetune == FInit /\ [][FNext]_vars

SpecInference == IInit /\ [][INext]_vars

----------------------------------------------------------------------------
(* Properties of precomp_vsts_emb.main (checked under SpecPrecomp)          *)

\* The modality is normalised and the model loaded: the run is in, or
\* past, the loop that selects embeddings by args.modality.
ModelLoaded == model_keys # {}

\* The part of a modality name before "+img" (the whole name without one).
TextPart(m) ==
    LET c == Chars[m]
        plus == {i \in 1..Len(c) : c[i] = "+"}
    IN  IF plus = {} THEN m
        ELSE LET cut == CHOOSE i \in plus : \A j \in plus : i <= j
             IN  CHOOSE s \in Modalities : Chars[s] = SubSeq(c, 1, cut - 1)

IsCombined(m) == \E i \in 1..Len(Chars[m]) : Chars[m][i] = "+"

\* The output key "X_emb" of a single modality X.
EmbKey(x) ==
    CASE x = "img"  -> "img_emb"
      [] x = "sent" -> "sent_emb"
      [] x = "cap"  -> "cap_emb"
      [] x = "comp" -> "comp_emb"

\* What is to be exported for one item (img, sent) under modality m.
ExpectedEmb(m, img, sent) ==
    LET out == Forward(AllKeys, <<img>>, <<sent>>)
        text == out[EmbKey(TextPart(m))][1]
    IN  IF IsCombined(m) THEN text \o out["img_emb"][1] ELSE text

\* C2: every embedding accumulated (and exported) for side 1 and side 2 of an
\* instance is, for a single modality X, the model output X_emb and, for
\* X+img, X_emb followed by img_emb.
C2_ExportedEmbedding ==
    /\ \A i \in 1..Len(embs1) :
          embs1[i] = ExpectedEmb(p_args.modality,
                                 fetched[i].img_1, fetched[i].sent_1)
    /\ \A i \in 1..Len(embs2) :
          embs2[i] = ExpectedEmb(p_args.modality,
                                 fetched[i].img_2, fetched[i].sent_2)
    /\ p_pc = "done" =>
          /\ saved[EmbFileName(p_args.model, p_args.modality, "emb_1")] = embs1
          /\ saved[EmbFileName(p_args.model, p_args.modality, "emb_2")] = embs2

\* A univse run that exported comp+img embeddings of two instances.
C2_Witness ==
    /\ p_pc = "done"
    /\ p_args.modality = "comp+img"
    /\ Len(embs1) >= 2
    /\ embs1[1] = << <<"comp_emb", fetched[1].sent_1>>,
                     <<"img_emb", fetched[1].img_1>> >>
    /\ embs2[2] = << <<"comp_emb", fetched[2].sent_2>>,
                     <<"img_emb", fetched[2].img_2>> >>
    /\ fetched[2].img_1 # fetched[2].img_2

\* C3 (as claimed): for a model other than univse a requested comp or
\* comp+img becomes sent or sent+img, and comp_emb is never read.
C3_CompBecomesSent ==
    (ModelLoaded /\ p_args.model # "univse" /\ StrIn("comp", requested))
        => /\ p_args.modality = (IF StrIn("img", requested)
                                 THEN "sent+img" ELSE "sent")
           /\ "comp_emb" \notin read_keys
           /\ \A name \in DOMAIN saved :
                  name = SimFileName \/ name[2] \in {"sent", "sent+img"}

\* C5: once the caption fix has run, a model other than univse has cap+img
\* replaced by sent+img and cap by sent; univse, and the requests img, sent
\* and sent+img, keep the requested modality.
C5_CapFix ==
    p_pc \notin {"load_data", "fix_cap"} =>
        /\ (p_args.model # "univse" /\ requested = "cap+img")
               => p_args.modality = "sent+img"
        /\ (p_args.model # "univse" /\ requested = "cap")
               => p_args.modality = "sent"
        /\ (p_args.model = "univse" \/ requested \in {"img", "sent", "sent+img"})
               => p_args.modality = requested

\* simp_univse asked for cap+img exported sent+img embeddings.
C5_Witness ==
    /\ p_pc = "done"
    /\ p_args.model = "simp_univse"
    /\ requested = "cap+img"
    /\ p_args.modality = "sent+img"
    /\ Len(embs1) >= 1
    /\ EmbFileName("simp_univse", "sent+img", "emb_1") \in DOMAIN saved

\* C8: the three accumulators always have the same length k, the number of
\* instances processed; entry i of each comes from instance i of the data
\* set; the exported arrays have N = number of instances rows.
C8_Aligned ==
    /\ Len(embs1) = Len(embs2)
    /\ Len(embs2) = Len(sims)
    /\ Len(sims) <= data_len
    /\ \A i \in 1..Len(sims) :
          LET row == fetched[i]
          IN  /\ sims[i] = row.sim
              /\ embs1[i] = SelectEmb(p_args.modality,
                     Forward(model_keys, <<row.img_1>>, <<row.sent_1>>))[1]
              /\ embs2[i] = SelectEmb(p_args.modality,
                     Forward(model_keys, <<row.img_2>>, <<row.sent_2>>))[1]
    /\ p_pc = "done" =>
          /\ Len(sims) = data_len
          /\ saved[SimFileName] = sims
          /\ Len(saved[EmbFileName(p_args.model, p_args.modality, "emb_1")])
                 = data_len
          /\ Len(saved[EmbFileName(p_args.model, p_args.modality, "emb_2")])
                 = data_len

\* Two instances with different scores and sentences were exported in order.
C8_Witness ==
    /\ p_pc = "done"
    /\ data_len >= 2
    /\ fetched[1].sim # fetched[2].sim
    /\ fetched[1].sent_1 # fetched[2].sent_1
    /\ saved[SimFileName] = <<fetched[1].sim, fetched[2].sim>>
    /\ p_args.modality = "sent"

----------------------------------------------------------------------------
(* Properties of finetune_snli_ve.main (checked under SpecFinetune)         *)

\* main has ended, by returning or by an uncaught exception.
Ended == pc \in {"done", "error"}

\* C1 (as claimed): when main has ended, ft_model_lr*.pth holds the weights
\* of the best checkpoint; with --epochs 0 these are the untrained weights.
C1_BestCheckpointSaved ==
    Ended =>
        /\ Len(model_file) = 1
        /\ args.epochs = 0 => model_file[1] = InitialWeights

\* C4 (as claimed): a run started with the options parse_args defines does
\* not fail on an attribute parse_args never defines, and the file passed
\* as file_label is the one given with --label-file.
C4_LabelFileLoaded ==
    /\ error # "AttributeError"
    /\ pc # "load_data" =>
          /\ file_label # << >>
          /\ \A i \in 1..Len(file_label) : file_label[i] = args.label_file

\* C7 (as claimed): when main has ended, the model file and losses.pickle
\* have each been written exactly once, losses.pickle with or without
\* --plot, and the plot exactly when --plot is set.
C7_OutputsWrittenOnce ==
    Ended =>
        /\ Len(model_file) = 1
        /\ Len(losses_file) = 1
        /\ Len(plot_file) = (IF args.plot THEN 1 ELSE 0)

----------------------------------------------------------------------------
(* Properties of finetune_snli_ve.inference (checked under SpecInference)   *)

RECURSIVE Flatten(_)
Flatten(gen) ==
    IF gen = << >> THEN << >> ELSE Head(gen).argmax \o Flatten(Tail(gen))

\* The batches are what the training loop unpacks as (embedding, label).
TwoFieldBatches == \A b \in 1..Len(data_gen) : data_gen[b].fields = 2

\* C6 (as claimed): over a data set whose batches the training loop unpacks
\* as (embedding, label), inference raises nothing and returns exactly one
\* predicted label per instance, in dataset order.
C6_InferenceCompletes ==
    TwoFieldBatches =>
        /\ i_error = "none"
        /\ i_pc = "returned" => all_logits = Flatten(data_gen)

====
